---- MODULE Spec2Model ----
(***************************************************************************)
(* Model of moda's evaluation harness (moda/evaluators/eval.py):           *)
(* eval_models, eval_models_CV, _prep_set, get_evaluation_metrics,         *)
(* get_metrics_for_one_category and _join_pred_to_dataset, together with   *)
(* the collaborators they call (the sklearn TimeSeriesSplit splitter and   *)
(* moda.evaluators.metrics.metrics).                                       *)
(*                                                                         *)
(* A pandas DataFrame with the (date, category) MultiIndex is a sequence   *)
(* of rows (records) in index order.  A cell that pandas would hold as NaN *)
(* is the empty sequence << >>, a present cell v is << v >>.  None is a    *)
(* record with isNone = TRUE.                                              *)
(***************************************************************************)
EXTENDS Integers, Sequences, FiniteSets, TLC

VARIABLES
    mode,                    \* "single" (eval_models) | "cv" (eval_models_CV) | "join" | "match"
    X, y,                    \* the arguments X and y: [isNone, rows]
    models,                  \* the argument models: a sequence of model names
    n_splits_arg,            \* the argument n_splits as passed: << >> is None
    n_splits,                \* the local n_splits after lines 118-124
    train_percent,           \* the argument train_percent
    window_size_for_metrics, \* the argument window_size_for_metrics
    pc,                      \* position in the function body
    err,                     \* the exception that left the function, "" if none
    warned,                  \* the n_splits warning of line 124 was printed
    mi,                      \* position of the for-loop over models
    folds,                   \* the (train, test) pairs the fold loop iterates over
    fi,                      \* position of the for-loop over folds
    metrics,                 \* the local metrics: category -> counts
    per_model_res,           \* the local per_model_res: model name -> final metrics
    counter,                 \* the local counter
    train_samples, train_labels, test_samples, test_labels,
    prediction,              \* the local prediction
    results,                 \* the joined table of get_evaluation_metrics
    calls,                   \* history: the fit / predict calls and returns so far
    matching,                \* history: the pairing the Matcher made last
    indep,                   \* history: per-fold counts from a zeroed accumulator, added up
    events,                  \* history: nonzero test labels of the folds run, per category
    skipped                  \* history: the folds left out for an empty test label set

vars == << mode, X, y, models, n_splits_arg, n_splits, train_percent, window_size_for_metrics,
           pc, err, warned, mi, folds, fi, metrics, per_model_res, counter,
           train_samples, train_labels, test_samples, test_labels, prediction,
           results, calls, matching, indep, events, skipped >>

----------------------------------------------------------------------------
(* Bounds of the model *)

MaxDates == 3
MaxJoinDates == 2
MaxLen == 4
MaxWindow == 2
MaxSplitDates == 9

Cats == <<"A", "B">>
CatSet == {Cats[i] : i \in 1..Len(Cats)}
CatRank(c) == CHOOSE i \in 1..Len(Cats) : Cats[i] = c

----------------------------------------------------------------------------
(* Tables *)

NaN == << >>
Cell(v) == << v >>

SameKey(r, s) == r.date = s.date /\ r.category = s.category
KeyLess(r, s) ==
    \/ r.date < s.date
    \/ r.date = s.date /\ CatRank(r.category) < CatRank(s.category)

Keys(df) == {<<df[i].date, df[i].category>> : i \in 1..Len(df)}
RowsAt(df, k) == {i \in 1..Len(df) : df[i].date = k[1] /\ df[i].category = k[2]}
UniqueKeys(df) == \A i, j \in 1..Len(df) : SameKey(df[i], df[j]) => i = j

RECURSIVE InsertSorted(_, _)
InsertSorted(row, sorted) ==
    IF sorted = << >> THEN << row >>
    ELSE IF KeyLess(row, Head(sorted)) THEN << row >> \o sorted
    ELSE << Head(sorted) >> \o InsertSorted(row, Tail(sorted))

\* results.sort_index(level=['date', 'category'], ascending=True): stable
RECURSIVE sort_index(_)
sort_index(df) ==
    IF df = << >> THEN << >>
    ELSE InsertSorted(df[Len(df)], sort_index(SubSeq(df, 1, Len(df) - 1)))

\* pd.merge(prediction_df, original_df, how='left', on=['date', 'category'])
\*     [['prediction', label_col_name]]
RECURSIVE merge_labels(_, _)
merge_labels(left, right) ==
    IF left = << >> THEN << >>
    ELSE LET r  == Head(left)
             ms == SelectSeq(right, LAMBDA s : SameKey(r, s))
             row(lab) == [date |-> r.date, category |-> r.category,
                          prediction |-> r.prediction, label |-> lab]
             rows == IF ms = << >> THEN << row(NaN) >>
                     ELSE [i \in 1..Len(ms) |-> row(Cell(ms[i].label))]
         IN rows \o merge_labels(Tail(left), right)

\* pd.merge(results, test_values_df, how='left', on=['date', 'category'])
RECURSIVE merge_values(_, _)
merge_values(left, right) ==
    IF left = << >> THEN << >>
    ELSE LET r  == Head(left)
             ms == SelectSeq(right, LAMBDA s : SameKey(r, s))
             row(val) == [date |-> r.date, category |-> r.category,
                          prediction |-> r.prediction, label |-> r.label,
                          value |-> val]
             rows == IF ms = << >> THEN << row(NaN) >>
                     ELSE [i \in 1..Len(ms) |-> row(Cell(ms[i].value))]
         IN rows \o merge_values(Tail(left), right)

\* results[label_col_name] = results[label_col_name].fillna(0)
fillna(df) ==
    [i \in 1..Len(df) |->
        [df[i] EXCEPT !.label = IF df[i].label = NaN THEN 0 ELSE df[i].label[1]]]

\* how='inner' instead of how='left': predicted keys with no label are dropped
join_inner(original_df, prediction_df, test_values_df) ==
    LET kept == SelectSeq(prediction_df,
                          LAMBDA r : \E i \in 1..Len(original_df) : SameKey(r, original_df[i]))
    IN sort_index(fillna(merge_values(merge_labels(kept, original_df), test_values_df)))

_join_pred_to_dataset(original_df, prediction_df, test_values_df) ==
    sort_index(fillna(merge_values(merge_labels(prediction_df, original_df),
                                   test_values_df)))

----------------------------------------------------------------------------
(* moda.evaluators.metrics.metrics: the accumulator and the Matcher *)

ZeroCounts == [TP |-> 0, FP |-> 0, FN |-> 0, num_samples |-> 0, num_values |-> 0]

_initialize_metrics(categories) == [c \in categories |-> ZeroCounts]

Abs(n) == IF n < 0 THEN -n ELSE n

EventIdx(seq) == {i \in 1..Len(seq) : seq[i] # 0}

\* Greedy closest-first matching: the actual events in ascending order, each
\* bound to the closest predicted event within window_size that is not yet
\* consumed, ties to the leftmost.  The result is the set of <<a, p>> pairs.
RECURSIVE match_events(_, _, _, _, _)
match_events(predicted, actual, window_size, a, pairs) ==
    IF a > Len(actual) THEN pairs
    ELSE IF actual[a] = 0
    THEN match_events(predicted, actual, window_size, a + 1, pairs)
    ELSE LET consumed == {pr[2] : pr \in pairs}
             cand == {p \in EventIdx(predicted) \ consumed : Abs(a - p) <= window_size}
         IN IF cand = {}
            THEN match_events(predicted, actual, window_size, a + 1, pairs)
            ELSE LET best == CHOOSE p \in cand : \A q \in cand :
                                 \/ Abs(a - p) < Abs(a - q)
                                 \/ Abs(a - p) = Abs(a - q) /\ p <= q
                 IN match_events(predicted, actual, window_size, a + 1,
                                 pairs \cup {<<a, best>>})

shift_pairs(predicted, actual, window_size) ==
    match_events(predicted, actual, window_size, 1, {})

get_metrics_with_shift(predicted, actual, category, mtr, window_size) ==
    LET tp == Cardinality(shift_pairs(predicted, actual, window_size))
    IN [mtr EXCEPT ![category].TP = @ + tp,
                   ![category].FN = @ + (Cardinality(EventIdx(actual)) - tp),
                   ![category].FP = @ + (Cardinality(EventIdx(predicted)) - tp)]

\* precision, recall, f1 and f0.5 as fractions <<numerator, denominator>>,
\* <<0, 1>> when the denominator is 0
Ratio(n, d) == IF d = 0 THEN <<0, 1>> ELSE <<n, d>>

get_final_metrics(mtr) ==
    [c \in DOMAIN mtr |->
        [precision   |-> Ratio(mtr[c].TP, mtr[c].TP + mtr[c].FP),
         recall      |-> Ratio(mtr[c].TP, mtr[c].TP + mtr[c].FN),
         f1          |-> Ratio(2 * mtr[c].TP, 2 * mtr[c].TP + mtr[c].FP + mtr[c].FN),
         f0_5        |-> Ratio(5 * mtr[c].TP, 5 * mtr[c].TP + 4 * mtr[c].FP + mtr[c].FN),
         num_samples |-> mtr[c].num_samples,
         num_values  |-> mtr[c].num_values]]

----------------------------------------------------------------------------
(* eval.py: scoring one joined table *)

\* dataset.loc[pd.IndexSlice[:, category], :]
category_rows(dataset, category) ==
    SelectSeq(dataset, LAMBDA r : r.category = category)

Column_prediction(df) == [i \in 1..Len(df) |-> df[i].prediction]
Column_label(df) == [i \in 1..Len(df) |-> df[i].label]

\* np.sum(category_results[value_col_name]): NaN cells are skipped
RECURSIVE sum_values(_)
sum_values(df) ==
    IF df = << >> THEN 0
    ELSE (IF Head(df).value = NaN THEN 0 ELSE Head(df).value[1]) + sum_values(Tail(df))

\* the whole dataset is scored instead of the category's slice
one_category_no_slice(dataset, window_size, category, mtr) ==
    LET m1 == get_metrics_with_shift(Column_prediction(dataset), Column_label(dataset),
                                     category, mtr, window_size)
    IN [m1 EXCEPT ![category].num_samples = @ + Len(dataset),
                  ![category].num_values = @ + sum_values(dataset)]

\* window_size_for_metrics is not handed on: the Matcher's default applies
one_category_default_window(dataset, window_size, category, mtr) ==
    LET category_results == category_rows(dataset, category)
        m1 == get_metrics_with_shift(Column_prediction(category_results),
                                     Column_label(category_results),
                                     category, mtr, 5)
    IN [m1 EXCEPT ![category].num_samples = @ + Len(category_results),
                  ![category].num_values = @ + sum_values(category_results)]

get_metrics_for_one_category(dataset, window_size, category, mtr) ==
    LET category_results == category_rows(dataset, category)
        m1 == get_metrics_with_shift(Column_prediction(category_results),
                                     Column_label(category_results),
                                     category, mtr, window_size)
    IN [m1 EXCEPT ![category].num_samples = @ + Len(category_results),
                  ![category].num_values = @ + sum_values(category_results)]

\* results.index.levels[1], in index order
Levels1(df) == SelectSeq(Cats, LAMBDA c : \E i \in 1..Len(df) : df[i].category = c)

RECURSIVE score_categories(_, _, _, _)
score_categories(dataset, window_size, cats, mtr) ==
    IF cats = << >> THEN mtr
    ELSE score_categories(dataset, window_size, Tail(cats),
             get_metrics_for_one_category(dataset, window_size, Head(cats), mtr))

get_evaluation_metrics(test_values_df, prediction_df, labels_df, mtr, window_size) ==
    LET res == _join_pred_to_dataset(labels_df, prediction_df, test_values_df)
    IN score_categories(res, window_size, Levels1(res), mtr)

----------------------------------------------------------------------------
(* Input tables *)

NoneVal == [isNone |-> TRUE, rows |-> << >>]
DataFrame(rows) == [isNone |-> FALSE, rows |-> rows]

Reverse(s) == [i \in 1..Len(s) |-> s[Len(s) + 1 - i]]

\* the keys of a date axis ds (a sequence of dates) times Cats, in index order
KeySeq(ds) ==
    [i \in 1..(Len(ds) * Len(Cats)) |->
        [date     |-> ds[((i - 1) \div Len(Cats)) + 1],
         category |-> Cats[((i - 1) % Len(Cats)) + 1]]]

Present(ch) == SelectSeq([i \in 1..Len(ch) |-> i], LAMBDA i : ch[i] # NaN)

\* ch[i] is NaN where the table has no row at key ks[i], else the cell
label_table(ks, ch) ==
    LET idx == Present(ch)
    IN [j \in 1..Len(idx) |-> [date |-> ks[idx[j]].date, category |-> ks[idx[j]].category,
                               label |-> ch[idx[j]][1]]]

prediction_table(ks, ch) ==
    LET idx == Present(ch)
    IN [j \in 1..Len(idx) |-> [date |-> ks[idx[j]].date, category |-> ks[idx[j]].category,
                               prediction |-> ch[idx[j]][1]]]

value_table(ks, ch) ==
    LET idx == Present(ch)
    IN [j \in 1..Len(idx) |-> [date |-> ks[idx[j]].date, category |-> ks[idx[j]].category,
                               value |-> ch[idx[j]][1]]]

DateRange(n) == [i \in 1..n |-> i]

ArgsIdle ==
    /\ X = NoneVal /\ y = NoneVal /\ models = << >>
    /\ n_splits_arg = << >> /\ n_splits = << >> /\ train_percent = 0

LoopIdle ==
    /\ err = "" /\ warned = FALSE /\ mi = 0 /\ folds = << >> /\ fi = 0
    /\ per_model_res = << >> /\ counter = 0
    /\ train_samples = << >> /\ train_labels = << >>

HistIdle ==
    /\ calls = << >> /\ indep = << >> /\ events = << >> /\ skipped = {}

NoMatching == [category |-> "", predicted |-> << >>, actual |-> << >>, pairs |-> {}]

----------------------------------------------------------------------------
(* The Joiner on its own: _join_pred_to_dataset applied to three tables with *)
(* unique keys                                                              *)

InitJoin ==
    /\ mode = "join" /\ pc = "ready"
    /\ ArgsIdle /\ LoopIdle /\ HistIdle
    /\ window_size_for_metrics = 0 /\ metrics = << >> /\ matching = NoMatching
    /\ results = << >>
    /\ \E n \in 0..MaxJoinDates :
         LET ks == KeySeq(DateRange(n))
             N  == Len(ks)
         IN /\ \E ch \in [1..N -> {NaN, Cell(0), Cell(1)}] :
                   test_labels = label_table(ks, ch)
            /\ \E ch \in [1..N -> {NaN, Cell(1)}], rev \in BOOLEAN :
                   prediction = IF rev THEN Reverse(prediction_table(ks, ch))
                                ELSE prediction_table(ks, ch)
            /\ \E sel \in {"all", "none", "first"} :
                   test_samples = value_table(ks,
                       [i \in 1..N |-> IF sel = "all" \/ (sel = "first" /\ i = 1)
                                       THEN Cell(i) ELSE NaN])

JoinStep ==
    /\ mode = "join" /\ pc = "ready"
    /\ results' = _join_pred_to_dataset(test_labels, prediction, test_samples)
    /\ pc' = "joined"
    /\ UNCHANGED << mode, X, y, models, n_splits_arg, n_splits, train_percent, window_size_for_metrics,
                    err, warned, mi, folds, fi, metrics, per_model_res, counter,
                    train_samples, train_labels, test_samples, test_labels, prediction,
                    calls, matching, indep, events, skipped >>

NextJoin == JoinStep

SpecJoin == InitJoin /\ [][NextJoin]_vars

----------------------------------------------------------------------------
(* The Matcher on its own: get_metrics_for_one_category applied to one      *)
(* category of a joined table                                               *)

\* a joined table over dates 1..n: category "A" with the given prediction and
\* label columns, category "B" absent, all zero, or an event in every row
match_dataset(n, pa, la, bopt) ==
    LET rowA(d) == [date |-> d, category |-> "A", prediction |-> pa[d],
                    label |-> la[d], value |-> Cell(1)]
        rowB(d) == [date |-> d, category |-> "B",
                    prediction |-> IF bopt = "events" THEN 1 ELSE 0,
                    label |-> IF bopt = "events" THEN -1 ELSE 0, value |-> NaN]
    IN IF bopt = "none" THEN [i \in 1..n |-> rowA(i)]
       ELSE [i \in 1..(2 * n) |-> IF i % 2 = 1 THEN rowA((i + 1) \div 2)
                                  ELSE rowB(i \div 2)]

InitMatch ==
    /\ mode = "match" /\ pc = "ready"
    /\ ArgsIdle /\ LoopIdle /\ HistIdle
    /\ test_samples = << >> /\ test_labels = << >> /\ prediction = << >>
    /\ metrics = _initialize_metrics(CatSet)
    /\ matching = NoMatching
    /\ window_size_for_metrics \in 0..MaxWindow
    /\ \E n \in 0..MaxLen :
         \E pa \in [1..n -> {0, 1}], la \in [1..n -> {0, 1}],
            bopt \in {"none", "zeros", "events"} :
             results = match_dataset(n, pa, la, bopt)

MatchCategory ==
    /\ mode = "match" /\ pc = "ready"
    /\ \E i \in 1..Len(Levels1(results)) :
         LET c    == Levels1(results)[i]
             rows == category_rows(results, c)
         IN /\ metrics' = get_metrics_for_one_category(results, window_size_for_metrics,
                                                       c, metrics)
            /\ matching' = [category  |-> c,
                            predicted |-> Column_prediction(rows),
                            actual    |-> Column_label(rows),
                            pairs     |-> shift_pairs(Column_prediction(rows),
                                                      Column_label(rows),
                                                      window_size_for_metrics)]
    /\ pc' = "matched"
    /\ UNCHANGED << mode, X, y, models, n_splits_arg, n_splits, train_percent, window_size_for_metrics,
                    err, warned, mi, folds, fi, per_model_res, counter,
                    train_samples, train_labels, test_samples, test_labels, prediction,
                    results, calls, indep, events, skipped >>

NextMatch == MatchCategory

SpecMatch == InitMatch /\ [][NextMatch]_vars

----------------------------------------------------------------------------
(* eval.py: the splitters *)

SetMin(S) == CHOOSE m \in S : \A o \in S : m <= o

RECURSIVE SortedSeq(_)
SortedSeq(S) ==
    IF S = {} THEN << >> ELSE << SetMin(S) >> \o SortedSeq(S \ {SetMin(S)})

\* X.index.levels[0]: the distinct dates, ascending
Levels0(rows) == SortedSeq({rows[i].date : i \in 1..Len(rows)})

\* X.index.levels[1]: the distinct categories
Categories(rows) == {rows[i].category : i \in 1..Len(rows)}

\* X.copy().loc[dates], then remove_unused_levels: the rows of df at the dates
\* (a date with no row in df selects nothing)
_prep_set(df, dates) ==
    SelectSeq(df.rows, LAMBDA r : \E i \in 1..Len(dates) : dates[i] = r.date)

\* datetimeindex[idx] for a sequence idx of 0-based positions
TakeDates(datetimeindex, idx) == [j \in 1..Len(idx) |-> datetimeindex[idx[j] + 1]]

Positions(from, to) == [j \in 1..(to - from) |-> from + j - 1]

\* sklearn.model_selection.TimeSeriesSplit(n_splits).split(axis of n_samples):
\* the (train, test) pairs of 0-based positions.
\*   test_size   = n_samples // (n_splits + 1)
\*   test_starts = range(n_samples - n_splits * test_size, n_samples, test_size)
\*   train = [0, test_start), test = [test_start, test_start + test_size)
TimeSeriesSplit(n, n_samples) ==
    LET test_size == n_samples \div (n + 1)
        start(k)  == n_samples - n * test_size + (k - 1) * test_size
    IN [k \in 1..n |-> [train |-> Positions(0, start(k)),
                        test  |-> Positions(start(k), start(k) + test_size)]]

\* TimeSeriesSplit(n_splits=n) raises ValueError for n <= 1, and split raises
\* ValueError when n + 1 folds exceed the number of samples
SplitRaises(n, n_samples) == n <= 1 \/ n + 1 > n_samples

\* the folds come out latest first
cv_folds_reversed(datetimeindex, n) ==
    LET sp == TimeSeriesSplit(n, Len(datetimeindex))
    IN [k \in 1..Len(sp) |-> [train |-> TakeDates(datetimeindex, sp[Len(sp) + 1 - k].train),
                              test  |-> TakeDates(datetimeindex, sp[Len(sp) + 1 - k].test)]]

\* a sliding window: each fold trains on the block before its test block only
cv_folds_sliding(datetimeindex, n) ==
    LET sp == TimeSeriesSplit(n, Len(datetimeindex))
        last(idx, k) == SubSeq(idx, Len(idx) - k + 1, Len(idx))
    IN [k \in 1..Len(sp) |->
           [train |-> TakeDates(datetimeindex,
                                last(sp[k].train,
                                     IF Len(sp[k].test) < Len(sp[k].train)
                                     THEN Len(sp[k].test) ELSE Len(sp[k].train))),
            test  |-> TakeDates(datetimeindex, sp[k].test)]]

\* for train, test in tscv.split(datetimeindex): datetimeindex[train], datetimeindex[test]
cv_folds(datetimeindex, n) ==
    LET sp == TimeSeriesSplit(n, Len(datetimeindex))
    IN [k \in 1..Len(sp) |-> [train |-> TakeDates(datetimeindex, sp[k].train),
                              test  |-> TakeDates(datetimeindex, sp[k].test)]]

\* train = datetimeindex[:int(num_dates * train_percent / 100)], test = the rest
percent_fold(datetimeindex, percent) ==
    LET num_dates == Len(datetimeindex)
        cut == (num_dates * percent) \div 100
    IN << [train |-> SubSeq(datetimeindex, 1, cut),
           test  |-> SubSeq(datetimeindex, cut + 1, num_dates)] >>

\* n_splits after lines 118-124
default_n_splits(given, num_dates) ==
    LET n1 == IF given = << >> THEN num_dates \div 2 ELSE given[1]
    IN IF n1 > num_dates THEN num_dates \div 2 ELSE n1

----------------------------------------------------------------------------
(* eval.py: eval_models and eval_models_CV, step by step *)

Harness == mode \in {"single", "cv"}

datetimeindex == Levels0(X.rows)
categories == Categories(X.rows)

\* only X is checked
input_error_X_only(features, labels) == features.isNone

\* if X is None: raise TypeError / if y is None: raise TypeError
input_error(features, labels) == features.isNone \/ labels.isNone

\* the fold is run whatever its test labels
runs_fold_always(labels) == TRUE

\* if (test_labels is not None) and (len(test_labels) > 0)
runs_fold(labels) == Len(labels) > 0

\* the accumulator is zeroed for every fold
accumulate_reset(mtr, test_values_df, prediction_df, labels_df, window_size) ==
    get_evaluation_metrics(test_values_df, prediction_df, labels_df,
                           _initialize_metrics(DOMAIN mtr), window_size)

\* metrics = get_evaluation_metrics(test_samples, prediction, test_labels, metrics, ...)
accumulate(mtr, test_values_df, prediction_df, labels_df, window_size) ==
    get_evaluation_metrics(test_values_df, prediction_df, labels_df, mtr, window_size)

AddCounts(a, b) ==
    [c \in DOMAIN a |-> [TP          |-> a[c].TP + b[c].TP,
                         FP          |-> a[c].FP + b[c].FP,
                         FN          |-> a[c].FN + b[c].FN,
                         num_samples |-> a[c].num_samples + b[c].num_samples,
                         num_values  |-> a[c].num_values + b[c].num_values]]

CountEvents(labels, c) ==
    Cardinality({i \in 1..Len(labels) : labels[i].category = c /\ labels[i].label # 0})

\* what model.predict(X=test_samples) may return: for each test date either no
\* rows, or a row per test key with prediction 0, or with prediction 1; the
\* model "ones" predicts 1 at every test key
predictions_of(samples, opt) ==
    LET kept == SelectSeq(samples, LAMBDA r : opt[r.date] # "missing")
    IN [i \in 1..Len(kept) |-> [date |-> kept[i].date, category |-> kept[i].category,
                                prediction |-> IF opt[kept[i].date] = "ones" THEN 1 ELSE 0]]

PredictOptions(model, samples) ==
    LET ds == {samples[i].date : i \in 1..Len(samples)}
    IN IF model = "ones" THEN {[d \in ds |-> "ones"]}
       ELSE [ds -> {"missing", "zeros", "ones"}]

Call(op, ev) == [op |-> op, ev |-> ev, model |-> mi, fold |-> fi, test |-> folds[fi].test]

\* lines 37-48 and 113-129, up to the loop over models
Enter ==
    /\ Harness /\ pc = "start"
    /\ IF input_error(X, y)
       THEN /\ pc' = "raised" /\ err' = "TypeError"
            /\ UNCHANGED << n_splits, warned, folds, mi >>
       ELSE /\ pc' = "model" /\ err' = "" /\ mi' = 1
            /\ IF mode = "cv"
               THEN /\ n_splits' = << default_n_splits(n_splits_arg, Len(datetimeindex)) >>
                    /\ warned' = (LET n1 == IF n_splits_arg = << >>
                                            THEN Len(datetimeindex) \div 2
                                            ELSE n_splits_arg[1]
                                  IN n1 > Len(datetimeindex))
                    /\ UNCHANGED folds
               ELSE /\ folds' = percent_fold(datetimeindex, train_percent)
                    /\ UNCHANGED << n_splits, warned >>
    /\ UNCHANGED << mode, X, y, models, n_splits_arg, train_percent, window_size_for_metrics,
                    fi, metrics, per_model_res, counter,
                    train_samples, train_labels, test_samples, test_labels, prediction,
                    results, calls, matching, indep, events, skipped >>

\* lines 50-56 and 130-138: the next model, its zeroed metrics, its folds
StartModel ==
    /\ Harness /\ pc = "model" /\ mi <= Len(models)
    /\ mode = "cv" => ~SplitRaises(n_splits[1], Len(datetimeindex))
    /\ counter' = 0
    /\ metrics' = _initialize_metrics(categories)
    /\ folds' = IF mode = "cv" THEN cv_folds(datetimeindex, n_splits[1]) ELSE folds
    /\ fi' = 1
    /\ pc' = "fold"
    /\ indep' = _initialize_metrics(categories)
    /\ events' = [c \in categories |-> 0]
    /\ UNCHANGED << mode, X, y, models, n_splits_arg, n_splits, train_percent,
                    window_size_for_metrics, err, warned, mi, per_model_res,
                    train_samples, train_labels, test_samples, test_labels, prediction,
                    results, calls, matching, skipped >>

\* line 134 / 138: TimeSeriesSplit rejects n_splits, after metrics was initialized
StartModelRaises ==
    /\ Harness /\ pc = "model" /\ mi <= Len(models)
    /\ mode = "cv" /\ SplitRaises(n_splits[1], Len(datetimeindex))
    /\ counter' = 0
    /\ metrics' = _initialize_metrics(categories)
    /\ pc' = "raised" /\ err' = "ValueError"
    /\ UNCHANGED << mode, X, y, models, n_splits_arg, n_splits, train_percent,
                    window_size_for_metrics, warned, mi, folds, fi, per_model_res,
                    train_samples, train_labels, test_samples, test_labels, prediction,
                    results, calls, matching, indep, events, skipped >>

\* lines 58-64 and 143-149, the fold is run
PrepFold ==
    /\ Harness /\ pc = "fold" /\ fi <= Len(folds)
    /\ runs_fold(_prep_set(y, folds[fi].test))
    /\ train_samples' = _prep_set(X, folds[fi].train)
    /\ train_labels' = _prep_set(y, folds[fi].train)
    /\ test_samples' = _prep_set(X, folds[fi].test)
    /\ test_labels' = _prep_set(y, folds[fi].test)
    /\ pc' = "fit"
    /\ UNCHANGED << mode, X, y, models, n_splits_arg, n_splits, train_percent,
                    window_size_for_metrics, err, warned, mi, folds, fi, metrics,
                    per_model_res, counter, prediction, results, calls, matching,
                    indep, events, skipped >>

\* lines 58-64 and 143-149, the fold is left out
SkipFold ==
    /\ Harness /\ pc = "fold" /\ fi <= Len(folds)
    /\ ~runs_fold(_prep_set(y, folds[fi].test))
    /\ train_samples' = _prep_set(X, folds[fi].train)
    /\ train_labels' = _prep_set(y, folds[fi].train)
    /\ test_samples' = _prep_set(X, folds[fi].test)
    /\ test_labels' = _prep_set(y, folds[fi].test)
    /\ skipped' = skipped \cup {<<mi, fi>>}
    /\ fi' = fi + 1
    /\ pc' = "fold"
    /\ UNCHANGED << mode, X, y, models, n_splits_arg, n_splits, train_percent,
                    window_size_for_metrics, err, warned, mi, folds, metrics,
                    per_model_res, counter, prediction, results, calls, matching,
                    indep, events >>

\* model.fit(X=train_samples, y=train_labels) is called
FitCall ==
    /\ Harness /\ pc = "fit"
    /\ calls' = Append(calls, Call("fit", "call"))
    /\ pc' = "fitting"
    /\ UNCHANGED << mode, X, y, models, n_splits_arg, n_splits, train_percent,
                    window_size_for_metrics, err, warned, mi, folds, fi, metrics,
                    per_model_res, counter, train_samples, train_labels, test_samples,
                    test_labels, prediction, results, matching, indep, events, skipped >>

FitReturn ==
    /\ Harness /\ pc = "fitting"
    /\ calls' = Append(calls, Call("fit", "return"))
    /\ pc' = "predict"
    /\ UNCHANGED << mode, X, y, models, n_splits_arg, n_splits, train_percent,
                    window_size_for_metrics, err, warned, mi, folds, fi, metrics,
                    per_model_res, counter, train_samples, train_labels, test_samples,
                    test_labels, prediction, results, matching, indep, events, skipped >>

\* model.predict(X=test_samples) is called
PredictCall ==
    /\ Harness /\ pc = "predict"
    /\ calls' = Append(calls, Call("predict", "call"))
    /\ pc' = "predicting"
    /\ UNCHANGED << mode, X, y, models, n_splits_arg, n_splits, train_percent,
                    window_size_for_metrics, err, warned, mi, folds, fi, metrics,
                    per_model_res, counter, train_samples, train_labels, test_samples,
                    test_labels, prediction, results, matching, indep, events, skipped >>

PredictReturn ==
    /\ Harness /\ pc = "predicting"
    /\ \E opt \in PredictOptions(models[mi], test_samples) :
           prediction' = predictions_of(test_samples, opt)
    /\ calls' = Append(calls, Call("predict", "return"))
    /\ pc' = "evaluate"
    /\ UNCHANGED << mode, X, y, models, n_splits_arg, n_splits, train_percent,
                    window_size_for_metrics, err, warned, mi, folds, fi, metrics,
                    per_model_res, counter, train_samples, train_labels, test_samples,
                    test_labels, results, matching, indep, events, skipped >>

\* fit or predict raises: the harness catches nothing
ModelRaises ==
    /\ Harness /\ pc \in {"fitting", "predicting"}
    /\ pc' = "raised" /\ err' = "ModelError"
    /\ UNCHANGED << mode, X, y, models, n_splits_arg, n_splits, train_percent,
                    window_size_for_metrics, warned, mi, folds, fi, metrics,
                    per_model_res, counter, train_samples, train_labels, test_samples,
                    test_labels, prediction, results, calls, matching, indep, events,
                    skipped >>

\* lines 72-77 and 155-160
Evaluate ==
    /\ Harness /\ pc = "evaluate"
    /\ metrics' = accumulate(metrics, test_samples, prediction, test_labels,
                             window_size_for_metrics)
    /\ results' = _join_pred_to_dataset(test_labels, prediction, test_samples)
    /\ counter' = counter + 1
    /\ indep' = AddCounts(indep,
                    get_evaluation_metrics(test_samples, prediction, test_labels,
                                           _initialize_metrics(categories),
                                           window_size_for_metrics))
    /\ events' = [c \in DOMAIN events |-> events[c] + CountEvents(test_labels, c)]
    /\ fi' = fi + 1
    /\ pc' = "fold"
    /\ UNCHANGED << mode, X, y, models, n_splits_arg, n_splits, train_percent,
                    window_size_for_metrics, err, warned, mi, folds, per_model_res,
                    train_samples, train_labels, test_samples, test_labels, prediction,
                    calls, matching, skipped >>

\* lines 79-82 and 162-165
Finalize ==
    /\ Harness /\ pc = "fold" /\ fi > Len(folds)
    /\ per_model_res' = [m \in DOMAIN per_model_res \cup {models[mi]} |->
                            IF m = models[mi] THEN get_final_metrics(metrics)
                            ELSE per_model_res[m]]
    /\ mi' = mi + 1
    /\ pc' = "model"
    /\ UNCHANGED << mode, X, y, models, n_splits_arg, n_splits, train_percent,
                    window_size_for_metrics, err, warned, folds, fi, metrics, counter,
                    train_samples, train_labels, test_samples, test_labels, prediction,
                    results, calls, matching, indep, events, skipped >>

\* return per_model_res
Return ==
    /\ Harness /\ pc = "model" /\ mi > Len(models)
    /\ pc' = "done"
    /\ UNCHANGED << mode, X, y, models, n_splits_arg, n_splits, train_percent,
                    window_size_for_metrics, err, warned, mi, folds, fi, metrics,
                    per_model_res, counter, train_samples, train_labels, test_samples,
                    test_labels, prediction, results, calls, matching, indep, events,
                    skipped >>

\* labels over the date axis ds: per date no rows, all zero, an event (1) in
\* category "A", or an event (-1) in category "B"
labels_of(ds, opt) ==
    LET ks == KeySeq(ds)
        pos(i) == ((i - 1) \div Len(Cats)) + 1
    IN label_table(ks,
         [i \in 1..Len(ks) |->
            IF opt[pos(i)] = "missing" THEN NaN
            ELSE IF opt[pos(i)] = "A" /\ ks[i].category = "A" THEN Cell(1)
            ELSE IF opt[pos(i)] = "B" /\ ks[i].category = "B" THEN Cell(-1)
            ELSE Cell(0)])

values_of(ds) == value_table(KeySeq(ds), [i \in 1..(Len(ds) * Len(Cats)) |-> Cell(1)])

ModelLists == {<< >>, <<"ones", "free">>}

Init ==
    /\ mode \in {"single", "cv"}
    /\ pc = "start"
    /\ \E n \in 0..MaxDates :
         /\ X \in {NoneVal, DataFrame(values_of(DateRange(n)))}
         /\ \/ y = NoneVal
            \/ \E opt \in [1..n -> {"missing", "quiet", "A", "B"}] :
                   y = DataFrame(labels_of(DateRange(n), opt))
    /\ models \in ModelLists
    /\ IF mode = "cv"
       THEN /\ n_splits_arg \in {<< >>} \cup {<< k >> : k \in 0..(MaxDates + 1)}
            /\ train_percent = 70
       ELSE /\ n_splits_arg = << >>
            /\ train_percent \in {50, 70, 100}
    /\ n_splits = n_splits_arg
    /\ window_size_for_metrics = 1
    /\ LoopIdle /\ HistIdle
    /\ metrics = << >> /\ matching = NoMatching
    /\ test_samples = << >> /\ test_labels = << >> /\ prediction = << >>
    /\ results = << >>

Next ==
    \/ Enter
    \/ StartModel
    \/ StartModelRaises
    \/ PrepFold
    \/ SkipFold
    \/ FitCall
    \/ FitReturn
    \/ PredictCall
    \/ PredictReturn
    \/ ModelRaises
    \/ Evaluate
    \/ Finalize
    \/ Return

Spec == Init /\ [][Next]_vars

----------------------------------------------------------------------------
(* The Splitter inside eval_models_CV: any date axis, labels with no rows, so *)
(* that every fold is prepared and left out                                  *)

InitSplit ==
    /\ mode = "cv"
    /\ pc = "start"
    /\ \E S \in SUBSET (1..MaxSplitDates) : X = DataFrame(values_of(SortedSeq(S)))
    /\ y = DataFrame(<< >>)
    /\ models = <<"ones">>
    /\ n_splits_arg \in {<< >>} \cup {<< k >> : k \in 0..(MaxSplitDates + 1)}
    /\ n_splits = n_splits_arg
    /\ train_percent = 70
    /\ window_size_for_metrics = 1
    /\ LoopIdle /\ HistIdle
    /\ metrics = << >> /\ matching = NoMatching
    /\ test_samples = << >> /\ test_labels = << >> /\ prediction = << >>
    /\ results = << >>

NextSplit ==
    \/ Enter
    \/ StartModel
    \/ StartModelRaises
    \/ SkipFold
    \/ Finalize
    \/ Return

SpecSplit == InitSplit /\ [][NextSplit]_vars

----------------------------------------------------------------------------
(* Properties of the Joiner and the Matcher *)

LabelAt(labels, r) ==
    LET ms == SelectSeq(labels, LAMBDA s : SameKey(r, s))
    IN IF ms = << >> THEN 0 ELSE ms[1].label

\* C2: for labels, predictions and values with unique keys, the joined table
\* has exactly one row for every key of predictions and no two rows with the
\* same key; a row's label is the label at that key in labels, or 0 when
\* labels has no row at that key.
C2_JoinOneRowPerPredictedKey ==
    (mode = "join" /\ pc = "joined"
        /\ UniqueKeys(test_labels) /\ UniqueKeys(prediction) /\ UniqueKeys(test_samples))
    => /\ Keys(results) = Keys(prediction)
       /\ \A k \in Keys(prediction) : Cardinality(RowsAt(results, k)) = 1
       /\ UniqueKeys(results)
       /\ \A i \in 1..Len(results) : results[i].label = LabelAt(test_labels, results[i])

\* a joined table holding a predicted key with no label (filled with 0), a
\* predicted key with label 1, while labels has a key that was not predicted
C2_Witness ==
    /\ mode = "join" /\ pc = "joined"
    /\ \E i \in 1..Len(results) :
          /\ <<results[i].date, results[i].category>> \notin Keys(test_labels)
          /\ results[i].label = 0
    /\ \E i \in 1..Len(results) :
          /\ <<results[i].date, results[i].category>> \in Keys(test_labels)
          /\ results[i].label = 1
    /\ ~(Keys(test_labels) \subseteq Keys(prediction))

WithinWindow(a, p) == Abs(a - p) <= window_size_for_metrics

\* C3: the Matcher pairs each predicted-event index with at most one
\* actual-event index and each actual-event index with at most one
\* predicted-event index; two true events both within window_size of a single
\* predicted event (and no other prediction) give one TP and one FN; TP + FN is
\* the number of actual events and TP + FP the number of predicted events.
C3_MatcherOneToOne ==
    (mode = "match" /\ pc = "matched")
    => LET m  == metrics[matching.category]
           P  == EventIdx(matching.predicted)
           A  == EventIdx(matching.actual)
           pr == matching.pairs
       IN /\ \A u, v \in pr : (u[1] = v[1] \/ u[2] = v[2]) => u = v
          /\ \A u \in pr : u[1] \in A /\ u[2] \in P /\ WithinWindow(u[1], u[2])
          /\ m.TP = Cardinality(pr)
          /\ m.TP + m.FN = Cardinality(A)
          /\ m.TP + m.FP = Cardinality(P)
          /\ (Cardinality(P) = 1 /\ Cardinality(A) = 2
                 /\ \A a \in A : \A p \in P : WithinWindow(a, p))
             => (m.TP = 1 /\ m.FN = 1 /\ m.FP = 0)

\* one predicted event with a true event on either side of it, both in the window
C3_Witness ==
    /\ mode = "match" /\ pc = "matched"
    /\ \E p \in EventIdx(matching.predicted) :
          /\ EventIdx(matching.predicted) = {p}
          /\ \E a1, a2 \in EventIdx(matching.actual) :
                /\ a1 < p /\ p < a2
                /\ EventIdx(matching.actual) = {a1, a2}
                /\ WithinWindow(a1, p) /\ WithinWindow(a2, p)
    /\ metrics[matching.category].TP = 1
    /\ metrics[matching.category].FN = 1

\* C4: one predicted event at position i and one true event at position i+k
\* give TP=1, FP=0, FN=0 when k <= window_size and TP=0, FP=1, FN=1 when
\* k > window_size; with window_size = 0 only same-position events match.
C4_WindowTolerance ==
    (mode = "match" /\ pc = "matched")
    => \A i \in 1..Len(matching.predicted) : \A k \in 0..Len(matching.actual) :
          (EventIdx(matching.predicted) = {i} /\ EventIdx(matching.actual) = {i + k})
          => LET m == metrics[matching.category]
             IN /\ (k <= window_size_for_metrics) => (m.TP = 1 /\ m.FP = 0 /\ m.FN = 0)
                /\ (k > window_size_for_metrics) => (m.TP = 0 /\ m.FP = 1 /\ m.FN = 1)
                /\ (window_size_for_metrics = 0) => (m.TP = 1 <=> k = 0)

\* a single predicted event and a single true event exactly window_size later
C4_Witness ==
    /\ mode = "match" /\ pc = "matched"
    /\ window_size_for_metrics > 0
    /\ \E i \in 1..Len(matching.predicted) :
          /\ EventIdx(matching.predicted) = {i}
          /\ EventIdx(matching.actual) = {i + window_size_for_metrics}
    /\ metrics[matching.category].TP = 1

----------------------------------------------------------------------------
(* Properties of the harness *)

InFoldLoop == pc \in {"fold", "fit", "fitting", "predict", "predicting", "evaluate"}

AfterFolds == pc = "fold" /\ fi > Len(folds)

\* C1: for every model and category, after all folds have run the accumulated
\* TP + FN equals the number of nonzero labels of that category in the test
\* label sets of the folds actually run, also when the predictions cover only
\* some of the test keys.
C1_TruePositivesPlusMissesAreTrueEvents ==
    (Harness /\ AfterFolds)
    => \A c \in DOMAIN metrics : metrics[c].TP + metrics[c].FN = events[c]

EmptyInput(df) == df.isNone \/ df.rows = << >>

NothingStarted ==
    /\ pc \in {"start", "raised"}
    /\ calls = << >> /\ metrics = << >> /\ per_model_res = << >>

C6_ClampedSplitsRun ==
    (mode = "cv" /\ ~input_error(X, y) /\ pc # "start"
        /\ Len(datetimeindex) >= 1
        /\ (n_splits_arg = << >> \/ n_splits_arg[1] > Len(datetimeindex)))
    => /\ n_splits = << Len(datetimeindex) \div 2 >>
       /\ n_splits_arg # << >> => warned
       /\ err # "ValueError"
       /\ InFoldLoop => Len(folds) = n_splits[1]

SeqSet(s) == {s[i] : i \in 1..Len(s)}

\* C7: the folds of eval_models_CV have pairwise disjoint test date sets, every
\* test date of a fold is later than every train date of that fold, and each
\* later fold's train set contains the previous fold's train and test sets.
C7_WalkForwardFolds ==
    (mode = "cv" /\ InFoldLoop)
    => /\ Len(folds) = n_splits[1]
       /\ \A k \in 1..Len(folds) :
             /\ folds[k].test # << >>
             /\ \A d \in SeqSet(folds[k].train) : \A e \in SeqSet(folds[k].test) : d < e
       /\ \A j, k \in 1..Len(folds) :
             j < k => SeqSet(folds[j].test) \cap SeqSet(folds[k].test) = {}
       /\ \A k \in 2..Len(folds) :
             (SeqSet(folds[k - 1].train) \cup SeqSet(folds[k - 1].test))
                 \subseteq SeqSet(folds[k].train)

\* three folds with test blocks of two dates over an axis with a gap
C7_Witness ==
    /\ mode = "cv" /\ InFoldLoop
    /\ Len(folds) >= 3
    /\ Len(folds[1].test) >= 2
    /\ \E i \in 1..(Len(datetimeindex) - 1) : datetimeindex[i + 1] > datetimeindex[i] + 1

\* C8: a fold whose test label set is empty causes no fit or predict call,
\* leaves the model's CategoryMetrics unchanged and raises no error; evaluation
\* goes on to the next fold and still returns a finalized report for the model.
C8_EmptyFoldSkipped ==
    [][ /\ (Harness /\ pc = "fold" /\ fi <= Len(folds)
               /\ _prep_set(y, folds[fi].test) = << >>)
           => /\ calls' = calls /\ metrics' = metrics /\ per_model_res' = per_model_res
              /\ err' = "" /\ pc' = "fold" /\ fi' = fi + 1
        /\ (Harness /\ pc' = "done")
           => \A i \in 1..Len(models) : models[i] \in DOMAIN per_model_res'
        /\ Harness
           => \A sk \in skipped' : \A i \in 1..Len(calls') :
                 ~(calls'[i].model = sk[1] /\ calls'[i].fold = sk[2])
      ]_vars

\* a run that returned after leaving out one fold of a model and running a
\* later fold of the same model
C8_Witness ==
    /\ mode = "cv" /\ pc = "done"
    /\ \E sk \in skipped : \E i \in 1..Len(calls) :
          calls[i].model = sk[1] /\ calls[i].fold > sk[2]
    /\ \A i \in 1..Len(models) : models[i] \in DOMAIN per_model_res

\* C9: the TP, FP, FN and num_samples counts of a model after N folds of
\* eval_models_CV are, per category, the sum of the counts of the Matcher run
\* on each fold from a zeroed accumulator; the accumulator starts at zero for
\* each model and is not reset between the folds of a model.
C9_CountsAreSumOfFolds ==
    (mode = "cv" /\ InFoldLoop)
    => /\ DOMAIN metrics = categories
       /\ \A c \in DOMAIN metrics :
             /\ metrics[c].TP = indep[c].TP
             /\ metrics[c].FP = indep[c].FP
             /\ metrics[c].FN = indep[c].FN
             /\ metrics[c].num_samples = indep[c].num_samples
       /\ (fi = 1 /\ pc = "fold") => \A c \in DOMAIN metrics : metrics[c] = ZeroCounts

\* the second model of the list after two folds that both counted something
C9_Witness ==
    /\ mode = "cv" /\ AfterFolds /\ mi = 2 /\ counter >= 2
    /\ \E c \in DOMAIN metrics : metrics[c].TP >= 2
    /\ \E c \in DOMAIN metrics : metrics[c].FP >= 1

SamePair(a, b) == a.model = b.model /\ a.fold = b.fold

\* C10: for each (model, fold) pair eval_models_CV calls fit at most once and
\* predict at most once, fit has returned before predict is called, no call
\* overlaps another, and the folds of a model are processed in chronological
\* order of their test blocks.
C10_CallDiscipline ==
    (mode = "cv")
    => /\ \A i \in 1..Len(calls) :
             IF i % 2 = 1 THEN calls[i].ev = "call"
             ELSE /\ calls[i].ev = "return"
                  /\ calls[i].op = calls[i - 1].op
                  /\ SamePair(calls[i], calls[i - 1])
       /\ \A i, j \in 1..Len(calls) :
             (calls[i].ev = "call" /\ calls[j].ev = "call"
                 /\ calls[i].op = calls[j].op /\ SamePair(calls[i], calls[j]))
             => i = j
       /\ \A j \in 1..Len(calls) :
             (calls[j].op = "predict" /\ calls[j].ev = "call")
             => \E i \in 1..(j - 1) :
                   calls[i].op = "fit" /\ calls[i].ev = "return" /\ SamePair(calls[i], calls[j])
       /\ \A i, j \in 1..Len(calls) :
             (i < j /\ calls[i].model = calls[j].model)
             => /\ calls[i].fold <= calls[j].fold
                /\ calls[i].fold < calls[j].fold
                   => \A d \in SeqSet(calls[i].test) : \A e \in SeqSet(calls[j].test) : d < e

\* both models were fitted and asked to predict on two folds each
C10_Witness ==
    /\ mode = "cv" /\ pc = "done"
    /\ \A m \in 1..2 : \E i, j \in 1..Len(calls) :
          /\ calls[i].model = m /\ calls[j].model = m
          /\ calls[i].op = "predict" /\ calls[j].op = "predict"
          /\ calls[i].fold < calls[j].fold

====
